---- MODULE Spec2Model ----
(***************************************************************************)
(* Distributed-Cache: the TTL cache engine (package cache), the wire       *)
(* protocol (package protocol) and the leader/follower server (package     *)
(* server), as state machines.                                             *)
(*                                                                         *)
(* SpecCache  : one cache engine under concurrent callers, a clock,        *)
(*              eviction timers and asynchronous cleanup deletes.          *)
(* SpecServer : a leader, a follower and their connections, by handler.    *)
(* SpecCodec  : Message.ToBytes followed by ParseCommand.                  *)
(* SpecStart  : Server.Start, connectToLeader and the connPool channel.    *)
(* SpecPersist: the engine's lock and the PersistentCache's lock.          *)
(* SpecRepl   : replicateToFollowers and the registry, step by step.       *)
(***************************************************************************)
EXTENDS Integers, Sequences, FiniteSets, Bags, TLC

\* ------------------------------------------------------------------ bounds
MaxTime == 2
MaxOps == 3

\* ------------------------------------------------------------- value sets
KeySpace == {"k1", "k2"}
ValueSpace == {"v1", "v2"}
\* time.Duration arguments of Set/BatchSet (negative, zero, positive)
TTLSpace == {-1, 0, 1, 2}
\* callers of the engine that may run concurrently
Procs == {"p1", "p2"}
Nil == "nil"

VARIABLES
    cache,      \* struct Cache: data, expiry, metrics
    now,        \* the wall clock read by time.Now()
    timers,     \* bag of pending startEviction goroutines
    cleanups,   \* bag of pending `go c.Delete(key)` goroutines started by Get
    readers,    \* callers inside Get holding the shared lock
    ops,        \* number of calls made so far
    shadow,     \* per key: the last client write, as the caller knows it
    onlyFreshSets, \* every call so far was a Set/BatchSet of new keys, ttl = 0
    spared      \* some timer has fired and left its key in place

cacheVars == <<cache, now, timers, cleanups, readers, ops, shadow, onlyFreshSets, spared>>

VARIABLES
    store,      \* per node: its cache engine
    nodeTimers, \* eviction goroutines started on the nodes' engines
    followers,  \* per node: Server.followers
    connPc,     \* per served end: where its handleConnection goroutine is
    buf,        \* per served end: the receive buffer of handleConnection
    wire,       \* per served end: payloads written to it and not yet read
    closed,     \* ends on which Close was called
    broken,     \* connections the network has cut
    handlers,   \* bag of running handleCommand goroutines
    repls,      \* bag of running replicateToFollowers goroutines
    sent,       \* payloads the clients have sent
    handed,     \* the replicateToFollowers goroutines started so far, in order
    wrote,      \* per connection: the replications written to it, in order
    log         \* the finished handleCommand calls and what each replied

serverVars == <<store, nodeTimers, followers, connPc, buf, wire, closed, broken,
                handlers, repls, sent, handed, wrote, log>>

VARIABLES
    msg,        \* the Message handed to ToBytes
    encoded,    \* the bytes ToBytes returned
    decoded,    \* what ParseCommand returned for them
    codecPc     \* "idle", "chosen", "encoded" or "decoded"

codecVars == <<msg, encoded, decoded, codecPc>>

VARIABLES
    role,       \* how the process was started: "none", "leader" or "follower"
    exit,       \* why the process has exited: "none", "listen" or "dial"
    dialPc,     \* where connectToLeader is
    dialAttempt, \* connectToLeader's loop variable
    dials,      \* net.Dial calls made so far
    acceptPc,   \* where the accept loop of Start is
    accepted,   \* connections ln.Accept has returned
    spawned,    \* handleConnection goroutines started by the accept loop
    ended,      \* those of them that have returned
    pool        \* connections sitting in the connPool channel

startVars == <<role, exit, dialPc, dialAttempt, dials, acceptPc, accepted, spawned, ended, pool>>

VARIABLES
    booted,     \* NewPersistentCache: "new", "loading" or "serving"
    rw,         \* Cache.lock: the goroutine holding it exclusively, and the
                \* goroutines holding it shared
    pmu,        \* PersistentCache.lock: the goroutine holding it
    inOp,       \* per goroutine: the engine method it is inside, or "idle"
    savePc      \* where SaveToDisk is: "idle", "locked" or "encoding"

persistVars == <<booted, rw, pmu, inOp, savePc>>

VARIABLES
    mu,         \* Server.mu: the goroutine holding it
    registry,   \* Server.followers on the leader
    hc,         \* per connection: where its handleConnection goroutine is
    shut,       \* connections on which Close was called
    rp,         \* per replicateToFollowers goroutine: its position and locals
    tally       \* per goroutine and connection: Writes made, success, removal

replVars == <<mu, registry, hc, shut, rp, tally>>

vars == <<cacheVars, serverVars, codecVars, startVars, persistVars, replVars>>

\* what the actions of each part leave alone
nonCacheVars == <<serverVars, codecVars, startVars, persistVars, replVars>>
nonServerVars == <<cacheVars, codecVars, startVars, persistVars, replVars>>
nonCodecVars == <<cacheVars, serverVars, startVars, persistVars, replVars>>
nonStartVars == <<cacheVars, serverVars, codecVars, persistVars, replVars>>
nonPersistVars == <<cacheVars, serverVars, codecVars, startVars, replVars>>
nonReplVars == <<cacheVars, serverVars, codecVars, startVars, persistVars>>

\* --------------------------------------------------------- map operations
Put(f, k, v) == [x \in (DOMAIN f) \cup {k} |-> IF x = k THEN v ELSE f[x]]

Remove(f, k) == [x \in (DOMAIN f) \ {k} |-> f[x]]

EmptyMap == [x \in {} |-> Nil]

Bump(m, field) == [m EXCEPT ![field] = @ + 1]

\* --------------------------------------------------------- the engine
NewCache ==
    [data |-> EmptyMap, expiry |-> EmptyMap,
     metrics |-> [Hits |-> 0, Misses |-> 0, Sets |-> 0, Deletes |-> 0]]

After_orEqual(t, u) == t >= u

\* time.Time.After: strictly later
After(t, u) == t > u

\* the expiry test shared by Get, Has, Keys and startEviction
Expired(c, k, t) == k \in DOMAIN c.expiry /\ After(t, c.expiry[k])

\* Cache.Set under the exclusive lock; the eviction goroutine it starts is
\* added by the caller of this operator
SetMaps(c, k, v, ttl, t) ==
    [data |-> Put(c.data, k, v),
     expiry |-> IF ttl > 0 THEN Put(c.expiry, k, t + ttl) ELSE c.expiry,
     metrics |-> Bump(c.metrics, "Sets")]

DeleteMaps_onlyIfPresent(c, k) ==
    [data |-> Remove(c.data, k),
     expiry |-> Remove(c.expiry, k),
     metrics |-> IF k \in DOMAIN c.data THEN Bump(c.metrics, "Deletes") ELSE c.metrics]

DeleteMaps_keepsExpiry(c, k) ==
    [data |-> Remove(c.data, k), expiry |-> c.expiry, metrics |-> Bump(c.metrics, "Deletes")]

\* Cache.Delete under the exclusive lock
DeleteMaps(c, k) ==
    [data |-> Remove(c.data, k),
     expiry |-> Remove(c.expiry, k),
     metrics |-> Bump(c.metrics, "Deletes")]

\* Cache.Has
HasOp(c, k, t) == k \in DOMAIN c.data /\ ~Expired(c, k, t)

\* Cache.Keys
KeysOp(c, t) == {k \in DOMAIN c.data : k \notin DOMAIN c.expiry \/ ~After(t, c.expiry[k])}

\* Cache.Get's outcome: "hit", "notfound" or "expired"
GetOutcome(c, k, t) ==
    IF k \notin DOMAIN c.data THEN "notfound"
    ELSE IF Expired(c, k, t) THEN "expired"
    ELSE "hit"

RECURSIVE BatchMaps_countsOnce(_, _, _, _)
BatchMaps_countsOnce(c, pairs, ttl, t) ==
    IF DOMAIN pairs = {} THEN c
    ELSE LET k == CHOOSE x \in DOMAIN pairs : TRUE
             rest == BatchMaps_countsOnce(c, Remove(pairs, k), ttl, t)
         IN [SetMaps(rest, k, pairs[k], ttl, t) EXCEPT !.metrics.Sets = c.metrics.Sets + 1]

RECURSIVE BatchMaps(_, _, _, _)
\* Cache.BatchSet's loop over the pairs
BatchMaps(c, pairs, ttl, t) ==
    IF DOMAIN pairs = {} THEN c
    ELSE LET k == CHOOSE x \in DOMAIN pairs : TRUE
         IN BatchMaps(SetMaps(c, k, pairs[k], ttl, t), Remove(pairs, k), ttl, t)

\* the timers Set/BatchSet start for the keys ks
NewTimers(ks, ttl, t) ==
    IF ttl > 0 THEN SetToBag({[key |-> k, due |-> t + ttl] : k \in ks}) ELSE EmptyBag

\* ------------------------------------------------------------ bookkeeping
\* what the engine records for k after a write with this ttl at time t:
\* the new expiry, or whatever expiry the key had before
Written(c, k, v, ttl, t) ==
    [set |-> TRUE, val |-> v, forever |-> (ttl <= 0),
     hasExp |-> (ttl > 0 \/ k \in DOMAIN c.expiry),
     exp |-> IF ttl > 0 THEN t + ttl ELSE IF k \in DOMAIN c.expiry THEN c.expiry[k] ELSE 0]

NotWritten == [set |-> FALSE, val |-> Nil, forever |-> FALSE, hasExp |-> FALSE, exp |-> 0]

NoReaders == readers = EmptyMap

CacheInit ==
    /\ cache = NewCache
    /\ now = 0
    /\ timers = EmptyBag
    /\ cleanups = EmptyBag
    /\ readers = EmptyMap
    /\ ops = 0
    /\ shadow = [k \in KeySpace |-> NotWritten]
    /\ onlyFreshSets = TRUE
    /\ spared = FALSE

\* ------------------------------------------------------------- the calls
Set(k, v, ttl) ==
    /\ ops < MaxOps
    /\ NoReaders
    /\ cache' = SetMaps(cache, k, v, ttl, now)
    /\ timers' = timers (+) NewTimers({k}, ttl, now)
    /\ ops' = ops + 1
    /\ shadow' = [shadow EXCEPT ![k] = Written(cache, k, v, ttl, now)]
    /\ onlyFreshSets' = (onlyFreshSets /\ ttl = 0 /\ k \notin DOMAIN cache.data)
    /\ UNCHANGED <<nonCacheVars, now, cleanups, readers, spared>>

BatchSet(pairs, ttl) ==
    /\ ops < MaxOps
    /\ NoReaders
    /\ cache' = BatchMaps(cache, pairs, ttl, now)
    /\ timers' = timers (+) NewTimers(DOMAIN pairs, ttl, now)
    /\ ops' = ops + 1
    /\ shadow' = [k \in KeySpace |->
                    IF k \in DOMAIN pairs THEN Written(cache, k, pairs[k], ttl, now)
                    ELSE shadow[k]]
    /\ onlyFreshSets' = (onlyFreshSets /\ ttl = 0 /\ (DOMAIN pairs) \cap (DOMAIN cache.data) = {})
    /\ UNCHANGED <<nonCacheVars, now, cleanups, readers, spared>>

\* Get, first half: take the shared lock, look the key up, read the clock
\* and load the counter it is about to increment
GetBegin(p, k) ==
    /\ ops < MaxOps
    /\ p \notin DOMAIN readers
    /\ LET out == GetOutcome(cache, k, now)
           ctr == IF out = "hit" THEN "Hits" ELSE "Misses"
       IN readers' = Put(readers, p, [key |-> k, out |-> out, t |-> now,
                                       val |-> IF out = "hit" THEN cache.data[k] ELSE Nil,
                                       ctr |-> ctr, loaded |-> cache.metrics[ctr]])
    /\ ops' = ops + 1
    /\ UNCHANGED <<nonCacheVars, cache, now, timers, cleanups, shadow, onlyFreshSets, spared>>

\* Get, second half: store the incremented counter, start the cleanup
\* goroutine when the key was expired, release the lock and return
GetEnd(p) ==
    /\ p \in DOMAIN readers
    /\ LET r == readers[p]
       IN /\ cache' = [cache EXCEPT !.metrics[r.ctr] = r.loaded + 1]
          /\ cleanups' = IF r.out = "expired"
                         THEN cleanups (+) SetToBag({[key |-> r.key]})
                         ELSE cleanups
    /\ readers' = Remove(readers, p)
    /\ UNCHANGED <<nonCacheVars, now, timers, ops, shadow, onlyFreshSets, spared>>

Has(k) ==
    /\ ops < MaxOps
    /\ ops' = ops + 1
    /\ UNCHANGED <<nonCacheVars, cache, now, timers, cleanups, readers, shadow, onlyFreshSets, spared>>

Keys ==
    /\ ops < MaxOps
    /\ ops' = ops + 1
    /\ UNCHANGED <<nonCacheVars, cache, now, timers, cleanups, readers, shadow, onlyFreshSets, spared>>

Metrics ==
    /\ ops < MaxOps
    /\ ops' = ops + 1
    /\ UNCHANGED <<nonCacheVars, cache, now, timers, cleanups, readers, shadow, onlyFreshSets, spared>>

\* Delete called by a client
Delete(k) ==
    /\ ops < MaxOps
    /\ NoReaders
    /\ cache' = DeleteMaps(cache, k)
    /\ ops' = ops + 1
    /\ shadow' = [shadow EXCEPT ![k] = NotWritten]
    /\ onlyFreshSets' = FALSE
    /\ UNCHANGED <<nonCacheVars, now, timers, cleanups, readers, spared>>

\* the `go c.Delete(key)` goroutine started by a Get that found key expired
CleanupDelete(g) ==
    /\ BagIn(g, cleanups)
    /\ NoReaders
    /\ cache' = DeleteMaps(cache, g.key)
    /\ cleanups' = cleanups (-) SetToBag({g})
    /\ UNCHANGED <<nonCacheVars, now, timers, readers, ops, shadow, onlyFreshSets, spared>>

EvictMaps_noRecheck(c, k, t) == IF k \in DOMAIN c.data THEN DeleteMaps(c, k) ELSE c

\* the body of startEviction after its timer has fired
EvictMaps(c, k, t) == IF Expired(c, k, t) THEN DeleteMaps(c, k) ELSE c

startEviction(g) ==
    /\ BagIn(g, timers)
    /\ now >= g.due
    /\ NoReaders
    /\ cache' = EvictMaps(cache, g.key, now)
    /\ timers' = timers (-) SetToBag({g})
    /\ spared' = (spared \/ (g.key \in DOMAIN cache.data /\ cache' = cache))
    /\ UNCHANGED <<nonCacheVars, now, cleanups, readers, ops, shadow, onlyFreshSets>>

Tick ==
    /\ now < MaxTime
    /\ now' = now + 1
    /\ UNCHANGED <<nonCacheVars, cache, timers, cleanups, readers, ops, shadow, onlyFreshSets, spared>>

PairMaps == UNION {[ks -> ValueSpace] : ks \in (SUBSET KeySpace) \ {{}}}

CacheNext ==
    \/ \E k \in KeySpace, v \in ValueSpace, ttl \in TTLSpace : Set(k, v, ttl)
    \/ \E pairs \in PairMaps, ttl \in TTLSpace : BatchSet(pairs, ttl)
    \/ \E p \in Procs, k \in KeySpace : GetBegin(p, k)
    \/ \E p \in Procs : GetEnd(p)
    \/ \E k \in KeySpace : Has(k)
    \/ Keys
    \/ Metrics
    \/ \E k \in KeySpace : Delete(k)
    \/ \E g \in BagToSet(cleanups) : CleanupDelete(g)
    \/ \E g \in BagToSet(timers) : startEviction(g)
    \/ Tick


\* ====================================================== package protocol
\* A payload is a sequence of one-character strings; a token is a payload
\* without white space.
SP == " "
WhiteSpace == {" ", "\t", "\n", "\r"}
Digits == <<"0", "1", "2", "3", "4", "5", "6", "7", "8", "9">>

CMDGet == <<"G", "E", "T">>
CMDSet == <<"S", "E", "T">>
CMDDel == <<"D", "E", "L">>
CMDHas == <<"H", "A", "S">>
CMDKeys == <<"K", "E", "Y", "S">>
CMDMetrics == <<"M", "E", "T", "R", "I", "C", "S">>
CMDBatch == <<"B", "A", "T", "C", "H">>

RECURSIVE Join(_, _)
\* strings.Join
Join(parts, sep) ==
    IF Len(parts) = 0 THEN <<>>
    ELSE IF Len(parts) = 1 THEN parts[1]
    ELSE parts[1] \o sep \o Join(Tail(parts), sep)

RECURSIVE SplitAcc(_, _, _, _)
\* the pieces of s between separators from seps, cur being the piece begun;
\* at most `limit` pieces when limit > 0 (the last takes the rest)
SplitAcc(s, seps, cur, limit) ==
    IF Len(s) = 0 THEN <<cur>>
    ELSE IF limit = 1 THEN <<cur \o s>>
    ELSE IF Head(s) \in seps
         THEN <<cur>> \o SplitAcc(Tail(s), seps, <<>>, IF limit > 0 THEN limit - 1 ELSE limit)
         ELSE SplitAcc(Tail(s), seps, Append(cur, Head(s)), limit)

\* strings.Split(s, sep) for a one-character separator
Split(s, sep) == SplitAcc(s, {sep}, <<>>, 0)

\* strings.SplitN(s, sep, n) for a one-character separator, n > 0
SplitN(s, sep, n) == SplitAcc(s, {sep}, <<>>, n)

\* strings.Fields: the maximal runs of non-space characters
Fields(s) == SelectSeq(SplitAcc(s, WhiteSpace, <<>>, 0), LAMBDA f : Len(f) > 0)

DigitValue(ch) == (CHOOSE i \in 1..10 : Digits[i] = ch) - 1

IsDigit(ch) == \E i \in 1..10 : Digits[i] = ch

RECURSIVE DigitsValue(_)
DigitsValue(s) ==
    IF Len(s) = 0 THEN 0
    ELSE 10 * DigitsValue(SubSeq(s, 1, Len(s) - 1)) + DigitValue(s[Len(s)])

\* strconv.ParseInt(s, 10, 64): [ok, val]; a sign, then at least one digit
ParseInt(s) ==
    LET signed == Len(s) > 0 /\ s[1] \in {"+", "-"}
        body == IF signed THEN Tail(s) ELSE s
    IN IF Len(body) > 0 /\ \A i \in 1..Len(body) : IsDigit(body[i])
       THEN [ok |-> TRUE,
             val |-> IF signed /\ s[1] = "-" THEN 0 - DigitsValue(body) ELSE DigitsValue(body)]
       ELSE [ok |-> FALSE, val |-> 0]

RECURSIVE NatDigits(_)
NatDigits(n) ==
    IF n < 10 THEN <<Digits[n + 1]>>
    ELSE Append(NatDigits(n \div 10), Digits[(n % 10) + 1])

\* fmt's %d
FormatInt(n) == IF n < 0 THEN <<"-">> \o NatDigits(0 - n) ELSE NatDigits(n)

\* the text of an error value
Err(text) == text
NoErr == "nil"

\* fmt.Errorf("invalid %s command format", msg.Cmd)
ErrFormat(cmd) ==
    CASE cmd = CMDGet -> Err("invalid GET command format")
      [] cmd = CMDHas -> Err("invalid HAS command format")
      [] cmd = CMDDel -> Err("invalid DEL command format")
      [] cmd = CMDKeys -> Err("invalid KEYS command format")
      [] cmd = CMDMetrics -> Err("invalid METRICS command format")

\* struct Message, with the error ParseCommand returns beside it
Message(cmd, key, value, ttl, pairs, err) ==
    [Cmd |-> cmd, Key |-> key, Value |-> value, TTL |-> ttl, Pairs |-> pairs, err |-> err]

ParseFailure(err) == Message(<<>>, <<>>, <<>>, 0, EmptyMap, err)

RECURSIVE ParsePairs(_, _)
\* the loop of ParseCommand over the pairs of a BATCH: [ok, pairs]
ParsePairs(pairs, acc) ==
    IF Len(pairs) = 0 THEN [ok |-> TRUE, pairs |-> acc]
    ELSE LET kv == SplitN(Head(pairs), ":", 2)
         IN IF Len(kv) # 2 THEN [ok |-> FALSE, pairs |-> acc]
            ELSE ParsePairs(Tail(pairs), Put(acc, kv[1], kv[2]))

ParseCommand(raw) ==
    LET parts == Fields(raw)
        n == Len(parts)
    IN IF n < 1 THEN ParseFailure(Err("invalid command"))
       ELSE LET cmd == parts[1]
            IN CASE cmd = CMDSet ->
                      IF n # 4 THEN ParseFailure(Err("invalid SET command format"))
                      ELSE LET ttl == ParseInt(parts[4])
                           IN IF ~ttl.ok THEN ParseFailure(Err("invalid TTL"))
                              ELSE Message(cmd, parts[2], parts[3], ttl.val, EmptyMap, NoErr)
                 [] cmd \in {CMDGet, CMDHas, CMDDel} ->
                      IF n # 2 THEN ParseFailure(ErrFormat(cmd))
                      ELSE Message(cmd, parts[2], <<>>, 0, EmptyMap, NoErr)
                 [] cmd \in {CMDKeys, CMDMetrics} ->
                      IF n # 1 THEN ParseFailure(ErrFormat(cmd))
                      ELSE Message(cmd, <<>>, <<>>, 0, EmptyMap, NoErr)
                 [] cmd = CMDBatch ->
                      IF n < 3 THEN ParseFailure(Err("invalid BATCH command format"))
                      ELSE LET ps == ParsePairs(Split(parts[2], ","), EmptyMap)
                               ttl == ParseInt(parts[3])
                           IN IF ~ps.ok THEN ParseFailure(Err("invalid key-value pair in BATCH"))
                              ELSE IF ~ttl.ok THEN ParseFailure(Err("invalid TTL"))
                              ELSE Message(cmd, <<>>, <<>>, ttl.val, ps.pairs, NoErr)
                 [] OTHER -> Message(cmd, <<>>, <<>>, 0, EmptyMap, NoErr)

RECURSIVE PairStrings(_, _)
\* the "k:v" strings of ToBytes, the map ranged over in the order `order`
PairStrings(pairs, order) ==
    IF Len(order) = 0 THEN <<>>
    ELSE <<Head(order) \o <<":">> \o pairs[Head(order)]>> \o PairStrings(pairs, Tail(order))

\* the orders in which `range` may visit the keys ks
Orders(ks) ==
    {o \in [1..Cardinality(ks) -> ks] : \A i, j \in 1..Cardinality(ks) : i # j => o[i] # o[j]}

\* Message.ToBytes, the pairs of a BATCH ranged over in the order `order`
ToBytes(m, order) ==
    CASE m.Cmd = CMDSet ->
            Join(<<CMDSet, m.Key, m.Value, FormatInt(m.TTL)>>, <<SP>>)
      [] m.Cmd \in {CMDGet, CMDHas, CMDDel} -> Join(<<m.Cmd, m.Key>>, <<SP>>)
      [] m.Cmd = CMDKeys -> CMDKeys
      [] m.Cmd = CMDMetrics -> CMDMetrics
      [] m.Cmd = CMDBatch ->
            Join(<<CMDBatch, Join(PairStrings(m.Pairs, order), <<",">>), FormatInt(m.TTL)>>, <<SP>>)
      [] OTHER -> <<>>

\* ------------------------------------------- encoding and decoding a message
\* tokens without white space: plain, with the pair separators, and empty
Tokens == {<<"k">>, <<"v">>, <<"a", ":", "b">>, <<"x", ",", "y">>, <<>>}
Durations == {-1, 0, 12}

\* the SET, DEL and BATCH messages a caller of ToBytes may build
Messages ==
    {Message(CMDSet, k, v, ttl, EmptyMap, NoErr) : k \in Tokens, v \in Tokens, ttl \in Durations}
    \cup {Message(CMDDel, k, <<>>, 0, EmptyMap, NoErr) : k \in Tokens}
    \cup {Message(CMDBatch, <<>>, <<>>, ttl, ps, NoErr) :
            ps \in UNION {[ks -> Tokens] : ks \in {x \in SUBSET Tokens : Cardinality(x) <= 2}},
            ttl \in Durations}

CodecInit ==
    /\ msg = ParseFailure(NoErr)
    /\ encoded = <<>>
    /\ decoded = ParseFailure(NoErr)
    /\ codecPc = "idle"

\* a caller builds the message m
Choose(m) ==
    /\ codecPc = "idle"
    /\ msg' = m
    /\ codecPc' = "chosen"
    /\ UNCHANGED <<nonCodecVars, encoded, decoded>>

\* raw := msg.ToBytes()
Encode(order) ==
    /\ codecPc = "chosen"
    /\ order \in Orders(DOMAIN msg.Pairs)
    /\ encoded' = ToBytes(msg, order)
    /\ codecPc' = "encoded"
    /\ UNCHANGED <<nonCodecVars, msg, decoded>>

\* msg, err := protocol.ParseCommand(raw)
Decode ==
    /\ codecPc = "encoded"
    /\ decoded' = ParseCommand(encoded)
    /\ codecPc' = "decoded"
    /\ UNCHANGED <<nonCodecVars, msg, encoded>>

TokenOrders == UNION {Orders(ks) : ks \in SUBSET Tokens}

CodecNext ==
    \/ \E m \in Messages : Choose(m)
    \/ \E order \in TokenOrders : Encode(order)
    \/ Decode

\* ======================================================== package server
MaxCmds == 2
MaxBroken == 1
maxRetries == 3

Nodes == {"L", "F"}
Client == "client"
\* main.go: isLeader := *leaderAddr == ""
IsLeader(n) == n = "L"

\* c1: a client's connection to the leader; c2: the follower's connection
\* to its leader; c3: a client's connection to the follower
Conns == {"c1", "c2", "c3"}
Dialer(c) == IF c = "c2" THEN "F" ELSE Client
Acceptor(c) == IF c = "c3" THEN "F" ELSE "L"
Peer(c, e) == IF e = Dialer(c) THEN Acceptor(c) ELSE Dialer(c)
\* the connection ends served by a handleConnection goroutine
\* the connections whose failure the model explores
Breakable == {"c1", "c2"}
ServerEnds == {e \in Nodes \X Conns : e[1] \in {Dialer(e[2]), Acceptor(e[2])}}


KeyK == <<"k">>
KeyJ == <<"j">>
ValV == <<"v">>
ValW == <<"w">>
Zero == <<"0">>
ReplyOK == <<"O", "K">>

\* what the clients send
ClientPayloads ==
    {Join(<<CMDSet, KeyK, ValV, Zero>>, <<SP>>),
     Join(<<CMDSet, KeyK, ValW, Zero>>, <<SP>>),
     Join(<<CMDBatch, KeyJ \o <<":">> \o ValV, Zero>>, <<SP>>),
     Join(<<CMDDel, KeyK>>, <<SP>>),
     Join(<<CMDGet, KeyK>>, <<SP>>),
     Join(<<CMDHas, KeyK>>, <<SP>>),
     CMDKeys,
     CMDMetrics,
     <<"P", "I", "N", "G">>,
     CMDGet}

Mutating == {CMDSet, CMDDel, CMDBatch}
Known == {CMDSet, CMDGet, CMDDel, CMDHas, CMDKeys, CMDMetrics, CMDBatch}

ServerInit ==
    /\ store = [n \in Nodes |-> NewCache]
    /\ nodeTimers = EmptyBag
    /\ followers = [n \in Nodes |-> {}]
    /\ connPc = [e \in ServerEnds |-> IF IsLeader(e[1]) THEN "start" ELSE "loop"]
    /\ buf = [e \in ServerEnds |-> <<>>]
    /\ wire = [e \in ServerEnds |-> <<>>]
    /\ closed = {}
    /\ broken = {}
    /\ handlers = EmptyBag
    /\ repls = EmptyBag
    /\ sent = 0
    /\ handed = <<>>
    /\ wrote = [c \in Conns |-> <<>>]
    /\ log = {}

\* a Write on connection c succeeds
Writable(c) == c \notin broken /\ \A e \in closed : e[2] # c

\* the bytes of a successful Write by `from` on c reach the peer's end
Deliver(w, from, c, bytes) ==
    LET to == <<Peer(c, from), c>>
    IN IF to \in ServerEnds THEN [w EXCEPT ![to] = Append(@, bytes)] ELSE w

One(x) == SetToBag({x})

\* ------------------------------------------------------------ the clients
ClientSend(c, bytes) ==
    /\ Dialer(c) = Client
    /\ sent < MaxCmds
    /\ Writable(c)
    /\ wire' = Deliver(wire, Client, c, bytes)
    /\ sent' = sent + 1
    /\ UNCHANGED <<nonServerVars, store, nodeTimers, followers, connPc, buf, closed, broken,
                   handlers, repls, handed, wrote, log>>

\* the network cuts a connection: every later Read and Write on it fails
Break(c) ==
    /\ c \in Breakable
    /\ Cardinality(broken) < MaxBroken
    /\ c \notin broken
    /\ broken' = broken \cup {c}
    /\ UNCHANGED <<nonServerVars, store, nodeTimers, followers, connPc, buf, wire, closed,
                   handlers, repls, sent, handed, wrote, log>>

\* ------------------------------------------------------- handleConnection
\* the head of handleConnection: the leader registers the connection
Register(n, c) ==
    /\ connPc[<<n, c>>] = "start"
    /\ followers' = IF IsLeader(n) THEN [followers EXCEPT ![n] = @ \cup {c}] ELSE followers
    /\ connPc' = [connPc EXCEPT ![<<n, c>>] = "loop"]
    /\ UNCHANGED <<nonServerVars, store, nodeTimers, buf, wire, closed, broken,
                   handlers, repls, sent, handed, wrote, log>>

\* copy(buf, bytes): the first Len(bytes) bytes of the buffer are overwritten
Overwrite(b, bytes) ==
    IF Len(bytes) >= Len(b) THEN bytes ELSE bytes \o SubSeq(b, Len(bytes) + 1, Len(b))

RECURSIVE Concat(_)
Concat(chunks) == IF Len(chunks) = 0 THEN <<>> ELSE Head(chunks) \o Concat(Tail(chunks))

\* conn.Read returns the next j payloads written by the peer as one run of
\* bytes; handleCommand is started on buf[:n] (got: the bytes this Read
\* returned, kept to compare with what the handler later finds there)
Read(n, c, j) ==
    LET e == <<n, c>>
        bytes == Concat(SubSeq(wire[e], 1, j))
    IN /\ connPc[e] = "loop"
       /\ e \notin closed
       /\ j \in 1..Len(wire[e])
       /\ buf' = [buf EXCEPT ![e] = Overwrite(@, bytes)]
       /\ wire' = [wire EXCEPT ![e] = SubSeq(@, j + 1, Len(@))]
       /\ handlers' = handlers (+) One([node |-> n, conn |-> c, len |-> Len(bytes),
                                        pc |-> "parse", raw |-> <<>>, msg |-> ParseFailure(NoErr),
                                        got |-> bytes])
       /\ UNCHANGED <<nonServerVars, store, nodeTimers, followers, connPc, closed, broken,
                      repls, sent, handed, wrote, log>>

ReadError_keepsEntry(n, c) ==
    LET e == <<n, c>>
    IN /\ connPc[e] = "loop"
       /\ \/ e \in closed
          \/ wire[e] = <<>> /\ (c \in broken \/ <<Peer(c, n), c>> \in closed)
       /\ closed' = closed \cup {e}
       /\ connPc' = [connPc EXCEPT ![e] = "done"]
       /\ UNCHANGED <<nonServerVars, store, nodeTimers, followers, buf, wire, broken,
                      handlers, repls, sent, handed, wrote, log>>

\* conn.Read fails: the connection leaves the registry and is closed
ReadError(n, c) ==
    LET e == <<n, c>>
    IN /\ connPc[e] = "loop"
       /\ \/ e \in closed
          \/ wire[e] = <<>> /\ (c \in broken \/ <<Peer(c, n), c>> \in closed)
       /\ followers' = [followers EXCEPT ![n] = @ \ {c}]
       /\ closed' = closed \cup {e}
       /\ connPc' = [connPc EXCEPT ![e] = "done"]
       /\ UNCHANGED <<nonServerVars, store, nodeTimers, buf, wire, broken,
                      handlers, repls, sent, handed, wrote, log>>

\* ---------------------------------------------------------- handleCommand
\* "ERROR: " + err.Error()
ErrorReply(err) == <<"E", "R", "R", "O", "R", ":", " ", err>>

\* fmt.Sprintf("%v", has)
BoolReply(b) == IF b THEN <<"t", "r", "u", "e">> ELSE <<"f", "a", "l", "s", "e">>

\* json.Marshal(metrics)
MetricsReply(m) ==
    <<"{", "\"Hits\":">> \o FormatInt(m.Hits) \o <<",", "\"Misses\":">> \o FormatInt(m.Misses)
    \o <<",", "\"Sets\":">> \o FormatInt(m.Sets) \o <<",", "\"Deletes\":">> \o FormatInt(m.Deletes)
    \o <<"}">>

\* strings.Join(keyStrings, ","), the keys in the order Keys() returned them
KeysReply(order) == Join(order, <<",">>)

\* a finished handleCommand call: the bytes it parsed, the command it
\* dispatched and the replies it wrote
Finished(h, raw, cmd, replies) ==
    [node |-> h.node, conn |-> h.conn, raw |-> raw, cmd |-> cmd, replies |-> replies]

\* handleCommand up to the switch: parse buf[:n] as it is now; a parse error
\* is answered at once, a command the switch does not know is dropped
Parse(h) ==
    LET e == <<h.node, h.conn>>
        raw == SubSeq(buf[e], 1, h.len)
        m == ParseCommand(raw)
    IN /\ BagIn(h, handlers)
       /\ h.pc = "parse"
       /\ IF m.err # NoErr
          THEN /\ handlers' = handlers (-) One(h)
               /\ wire' = IF Writable(h.conn)
                          THEN Deliver(wire, h.node, h.conn, ErrorReply(m.err)) ELSE wire
               /\ log' = log \cup {Finished(h, raw, m.Cmd,
                            IF Writable(h.conn) THEN <<ErrorReply(m.err)>> ELSE <<>>)}
          ELSE IF m.Cmd \notin Known
          THEN /\ handlers' = handlers (-) One(h)
               /\ log' = log \cup {Finished(h, raw, m.Cmd, <<>>)}
               /\ wire' = wire
          ELSE /\ handlers' = (handlers (-) One(h)) (+) One([h EXCEPT !.pc = "apply", !.raw = raw, !.msg = m])
               /\ UNCHANGED <<wire, log>>
       /\ UNCHANGED <<nonServerVars, store, nodeTimers, followers, connPc, buf, closed, broken,
                      repls, sent, handed, wrote>>

\* what the handler the switch selected does to the engine of node n, the
\* reply it leaves to write and the error it returns: [cache, timers, out, err]
Outcome(c, started, out, err) == [cache |-> c, timers |-> started, out |-> out, err |-> err]

DeleteCall_missingFails(c, m) ==
    IF m.Key \notin DOMAIN c.data
    THEN Outcome(c, EmptyBag, <<>>, Err("key not found"))
    ELSE Outcome(DeleteMaps(c, m.Key), EmptyBag, ReplyOK, NoErr)

\* handleDelete: the engine's Delete never fails, the reply is "OK"
DeleteCall(c, m) == Outcome(DeleteMaps(c, m.Key), EmptyBag, ReplyOK, NoErr)

CacheCall(n, c, m, order) ==
    CASE m.Cmd = CMDSet ->
            Outcome(SetMaps(c, m.Key, m.Value, m.TTL, now),
                    NewTimers({<<n, m.Key>>}, m.TTL, now), ReplyOK, NoErr)
      [] m.Cmd = CMDBatch ->
            Outcome(BatchMaps(c, m.Pairs, m.TTL, now),
                    NewTimers({<<n, k>> : k \in DOMAIN m.Pairs}, m.TTL, now), ReplyOK, NoErr)
      [] m.Cmd = CMDDel -> DeleteCall(c, m)
      [] m.Cmd = CMDGet ->
            IF GetOutcome(c, m.Key, now) = "hit"
            THEN Outcome([c EXCEPT !.metrics = Bump(@, "Hits")], EmptyBag, c.data[m.Key], NoErr)
            ELSE Outcome([c EXCEPT !.metrics = Bump(@, "Misses")], EmptyBag, <<>>,
                         Err("key not found"))
      [] m.Cmd = CMDHas -> Outcome(c, EmptyBag, BoolReply(HasOp(c, m.Key, now)), NoErr)
      [] m.Cmd = CMDKeys -> Outcome(c, EmptyBag, KeysReply(order), NoErr)
      [] m.Cmd = CMDMetrics -> Outcome(c, EmptyBag, MetricsReply(c.metrics), NoErr)

Replicates_anyNode(n, cmd) == cmd \in Mutating

\* handleSet, handleDelete and handleBatch hand the message to replication
\* on the leader; the other handlers never do
Replicates(n, cmd) == cmd \in Mutating /\ IsLeader(n)

\* a replicateToFollowers goroutine as `go` starts it
NewRepl(n, m, seq) ==
    [node |-> n, msg |-> m, seq |-> seq, stage |-> "snapshot", raw |-> <<>>,
     todo |-> {}, attempts |-> 0]

\* the handler the switch selected, from its cache call to its return: the
\* cache call, then (handleSet, handleDelete, handleBatch on the leader) the
\* start of the replication goroutine, then the conn.Write of the reply; a
\* handler error, a failed Write included, is answered with "ERROR: ..."
Dispatch(h, order) ==
    LET n == h.node
        m == h.msg
        res == CacheCall(n, store[n], m, order)
        bytes == IF res.err = NoErr THEN res.out ELSE ErrorReply(res.err)
    IN /\ BagIn(h, handlers)
       /\ h.pc = "apply"
       /\ order \in Orders(KeysOp(store[n], now))
       /\ m.Cmd = CMDKeys \/ order = CHOOSE o \in Orders(KeysOp(store[n], now)) : TRUE
       /\ store' = [store EXCEPT ![n] = res.cache]
       /\ nodeTimers' = nodeTimers (+) res.timers
       /\ IF Replicates(n, m.Cmd)
          THEN /\ repls' = repls (+) One(NewRepl(n, m, Len(handed) + 1))
               /\ handed' = Append(handed, [node |-> n, msg |-> m,
                                            applied |-> store'[n].data])
          ELSE UNCHANGED <<repls, handed>>
       /\ handlers' = handlers (-) One(h)
       /\ IF Writable(h.conn)
          THEN /\ wire' = IF bytes = <<>> THEN wire ELSE Deliver(wire, n, h.conn, bytes)
               /\ log' = log \cup {Finished(h, h.raw, m.Cmd, <<bytes>>)}
          ELSE /\ wire' = wire
               /\ log' = log \cup {Finished(h, h.raw, m.Cmd, <<>>)}
       /\ UNCHANGED <<nonServerVars, followers, connPc, buf, closed, broken, sent, wrote>>

\* --------------------------------------------------- replicateToFollowers
\* raw := msg.ToBytes(), and the snapshot of the registry under s.mu
Snapshot(r, order) ==
    /\ BagIn(r, repls)
    /\ r.stage = "snapshot"
    /\ order \in Orders(DOMAIN r.msg.Pairs)
    /\ repls' = IF followers[r.node] = {} THEN repls (-) One(r)
                ELSE (repls (-) One(r)) (+)
                     One([r EXCEPT !.stage = "fanout", !.raw = ToBytes(r.msg, order),
                                   !.todo = followers[r.node]])
    /\ UNCHANGED <<nonServerVars, store, nodeTimers, followers, connPc, buf, wire, closed,
                   broken, handlers, sent, handed, wrote, log>>

RECURSIVE RetryLoop(_, _)
\* the retry loop of replicateToFollowers for one follower, from attempt
\* number `attempt` on, when conn.Write succeeds (ok) or keeps failing:
\* [attempts made, delivered, dropped]
RetryLoop(ok, attempt) ==
    IF attempt > maxRetries THEN [attempts |-> attempt - 1, delivered |-> FALSE, dropped |-> FALSE]
    ELSE IF ok THEN [attempts |-> attempt, delivered |-> TRUE, dropped |-> FALSE]
    ELSE LET rest == RetryLoop(ok, attempt + 1)
         IN [rest EXCEPT !.dropped = @ \/ attempt = maxRetries]

\* the body of the fan-out loop for follower c: conn.Write(raw) up to
\* maxRetries times, retryDelay apart; on the last failure the connection
\* is closed and leaves the registry. A connection that fails a Write fails
\* the later ones too, so the passes of the loop are taken as one step.
Attempt(r, c) ==
    LET res == RetryLoop(Writable(c), 1)
        rest == [r EXCEPT !.todo = @ \ {c}, !.attempts = @ + res.attempts]
    IN /\ BagIn(r, repls)
       /\ r.stage = "fanout"
       /\ c \in r.todo
       /\ wire' = IF res.delivered THEN Deliver(wire, r.node, c, r.raw) ELSE wire
       /\ wrote' = IF res.delivered THEN [wrote EXCEPT ![c] = Append(@, r.seq)] ELSE wrote
       /\ closed' = IF res.dropped THEN closed \cup {<<r.node, c>>} ELSE closed
       /\ followers' = IF res.dropped THEN [followers EXCEPT ![r.node] = @ \ {c}] ELSE followers
       /\ repls' = (repls (-) One(r)) (+) (IF rest.todo = {} THEN EmptyBag ELSE One(rest))
       /\ UNCHANGED <<nonServerVars, store, nodeTimers, connPc, buf, broken,
                      handlers, sent, handed, log>>

\* ------------------------- replicateToFollowers and the registry, by steps
\* the connections a leader has accepted, and the replication goroutines
FConns == {"f1", "f2"}
Repls == {"r1", "r2"}

NoTally == [tries |-> 0, ok |-> FALSE, removed |-> FALSE]

ReplInit ==
    /\ mu = Nil
    /\ registry = {}
    /\ hc = [c \in FConns |-> "init"]
    /\ shut = {}
    /\ rp = [r \in Repls |-> [pc |-> "start", snap |-> <<>>, taken |-> {}, attempt |-> 0]]
    /\ tally = [r \in Repls |-> [c \in FConns |-> NoTally]]

\* `go s.handleConnection(conn)` on the leader
HandlerStart(c) ==
    /\ hc[c] = "init"
    /\ hc' = [hc EXCEPT ![c] = "register"]
    /\ UNCHANGED <<nonReplVars, mu, registry, shut, rp, tally>>

\* handleConnection: s.mu.Lock() before the registration
AcquireForAdd(c) ==
    /\ hc[c] = "register"
    /\ mu = Nil
    /\ mu' = c
    /\ hc' = [hc EXCEPT ![c] = "add"]
    /\ UNCHANGED <<nonReplVars, registry, shut, rp, tally>>

\* s.followers[conn] = struct{}{}; s.mu.Unlock()
AddEntry(c) ==
    /\ hc[c] = "add"
    /\ registry' = registry \cup {c}
    /\ mu' = Nil
    /\ hc' = [hc EXCEPT ![c] = "loop"]
    /\ UNCHANGED <<nonReplVars, shut, rp, tally>>

\* conn.Read returns an error: the peer went away, or the connection was
\* closed under the loop
ReadFails(c) ==
    /\ hc[c] = "loop"
    /\ hc' = [hc EXCEPT ![c] = "unregister"]
    /\ UNCHANGED <<nonReplVars, mu, registry, shut, rp, tally>>

\* s.mu.Lock() before the removal
AcquireForRemove(c) ==
    /\ hc[c] = "unregister"
    /\ mu = Nil
    /\ mu' = c
    /\ hc' = [hc EXCEPT ![c] = "remove"]
    /\ UNCHANGED <<nonReplVars, registry, shut, rp, tally>>

\* delete(s.followers, conn); s.mu.Unlock(); return, and the deferred
\* conn.Close()
RemoveEntry(c) ==
    /\ hc[c] = "remove"
    /\ registry' = registry \ {c}
    /\ mu' = Nil
    /\ shut' = shut \cup {c}
    /\ hc' = [hc EXCEPT ![c] = "done"]
    /\ UNCHANGED <<nonReplVars, rp, tally>>

\* replicateToFollowers: s.mu.Lock()
AcquireForSnapshot(r) ==
    /\ rp[r].pc = "start"
    /\ mu = Nil
    /\ mu' = r
    /\ rp' = [rp EXCEPT ![r].pc = "copy"]
    /\ UNCHANGED <<nonReplVars, registry, hc, shut, tally>>

\* the copy of the registry, in the order `range` visits it, and
\* s.mu.Unlock()
CopyRegistry(r, order) ==
    /\ rp[r].pc = "copy"
    /\ order \in Orders(registry)
    /\ mu' = Nil
    /\ rp' = [rp EXCEPT ![r] = [pc |-> "next", snap |-> order, taken |-> registry,
                                 attempt |-> 0]]
    /\ UNCHANGED <<nonReplVars, registry, hc, shut, tally>>

\* `for _, conn := range followers`: the next connection, attempt := 1
NextFollower(r) ==
    /\ rp[r].pc = "next"
    /\ rp' = IF rp[r].snap = <<>> THEN [rp EXCEPT ![r].pc = "done"]
             ELSE [rp EXCEPT ![r].pc = "write", ![r].attempt = 1]
    /\ UNCHANGED <<nonReplVars, mu, registry, hc, shut, tally>>

LastAttempt_first(a) == a = 1

\* if attempt == s.maxRetries
LastAttempt(a) == a = maxRetries

\* conn.Write(raw) succeeds, which it cannot on a closed connection, or
\* fails: a success leaves the retry loop
WriteOnce(r, ok) ==
    LET c == Head(rp[r].snap)
    IN /\ rp[r].pc = "write"
       /\ ok => c \notin shut
       /\ tally' = [tally EXCEPT ![r][c].tries = @ + 1, ![r][c].ok = ok]
       /\ rp' = IF ok THEN [rp EXCEPT ![r].pc = "next", ![r].snap = Tail(@)]
                ELSE IF LastAttempt(rp[r].attempt) THEN [rp EXCEPT ![r].pc = "close"]
                ELSE [rp EXCEPT ![r].pc = "sleep"]
       /\ UNCHANGED <<nonReplVars, mu, registry, hc, shut>>

\* conn.Close() after the last failed attempt
CloseDead(r) ==
    /\ rp[r].pc = "close"
    /\ shut' = shut \cup {Head(rp[r].snap)}
    /\ rp' = [rp EXCEPT ![r].pc = "lock"]
    /\ UNCHANGED <<nonReplVars, mu, registry, hc, tally>>

\* s.mu.Lock() before the removal
AcquireForDelete(r) ==
    /\ rp[r].pc = "lock"
    /\ mu = Nil
    /\ mu' = r
    /\ rp' = [rp EXCEPT ![r].pc = "delete"]
    /\ UNCHANGED <<nonReplVars, registry, hc, shut, tally>>

\* delete(s.followers, conn); s.mu.Unlock()
DeleteDead(r) ==
    LET c == Head(rp[r].snap)
    IN /\ rp[r].pc = "delete"
       /\ registry' = registry \ {c}
       /\ mu' = Nil
       /\ tally' = [tally EXCEPT ![r][c].removed = TRUE]
       /\ rp' = [rp EXCEPT ![r].pc = "sleep"]
       /\ UNCHANGED <<nonReplVars, hc, shut>>

\* time.Sleep(s.retryDelay); continue: attempt++ and the loop condition
SleepRetry(r) ==
    /\ rp[r].pc = "sleep"
    /\ rp' = IF rp[r].attempt + 1 <= maxRetries
             THEN [rp EXCEPT ![r].pc = "write", ![r].attempt = @ + 1]
             ELSE [rp EXCEPT ![r].pc = "next", ![r].attempt = @ + 1, ![r].snap = Tail(@)]
    /\ UNCHANGED <<nonReplVars, mu, registry, hc, shut, tally>>

FOrders == UNION {Orders(cs) : cs \in SUBSET FConns}

ReplNext ==
    \/ \E c \in FConns : HandlerStart(c)
    \/ \E c \in FConns : AcquireForAdd(c)
    \/ \E c \in FConns : AddEntry(c)
    \/ \E c \in FConns : ReadFails(c)
    \/ \E c \in FConns : AcquireForRemove(c)
    \/ \E c \in FConns : RemoveEntry(c)
    \/ \E r \in Repls : AcquireForSnapshot(r)
    \/ \E r \in Repls, order \in FOrders : CopyRegistry(r, order)
    \/ \E r \in Repls : NextFollower(r)
    \/ \E r \in Repls, ok \in BOOLEAN : WriteOnce(r, ok)
    \/ \E r \in Repls : CloseDead(r)
    \/ \E r \in Repls : AcquireForDelete(r)
    \/ \E r \in Repls : DeleteDead(r)
    \/ \E r \in Repls : SleepRetry(r)

\* --------------------------------------- PersistentCache and the two locks
\* the goroutines calling the engine: command handlers, eviction timers
Workers == {"g1", "g2", "g3"}
Saver == "periodicSave"
Loader == "NewPersistentCache"

\* the engine's methods that take c.lock.Lock(), and c.lock.RLock()
ExclusiveOps == {"Set", "BatchSet", "Delete", "startEviction"}
SharedOps == {"Get", "Has", "Keys", "Metrics"}

PersistInit ==
    /\ booted = "new"
    /\ rw = [writer |-> Nil, readers |-> {}]
    /\ pmu = Nil
    /\ inOp = [g \in Workers |-> "idle"]
    /\ savePc = "idle"

\* NewPersistentCache: with a file on disk, loadFromDisk takes the
\* PersistentCache's own lock and decodes into c.data
Load(fileExists) ==
    /\ booted = "new"
    /\ booted' = IF fileExists THEN "loading" ELSE "serving"
    /\ pmu' = IF fileExists THEN Loader ELSE pmu
    /\ UNCHANGED <<nonPersistVars, rw, inOp, savePc>>

\* loadFromDisk returns; the server starts
LoadDone ==
    /\ booted = "loading"
    /\ booted' = "serving"
    /\ pmu' = Nil
    /\ UNCHANGED <<nonPersistVars, rw, inOp, savePc>>

\* a goroutine enters an engine method: c.lock.Lock() or c.lock.RLock()
Enter(g, op) ==
    /\ booted = "serving"
    /\ inOp[g] = "idle"
    /\ IF op \in ExclusiveOps
       THEN /\ rw.writer = Nil /\ rw.readers = {}
            /\ rw' = [rw EXCEPT !.writer = g]
       ELSE /\ rw.writer = Nil
            /\ rw' = [rw EXCEPT !.readers = @ \cup {g}]
    /\ inOp' = [inOp EXCEPT ![g] = op]
    /\ UNCHANGED <<nonPersistVars, booted, pmu, savePc>>

\* the method returns: the deferred Unlock or RUnlock
Leave(g) ==
    /\ inOp[g] # "idle"
    /\ rw' = IF inOp[g] \in ExclusiveOps THEN [rw EXCEPT !.writer = Nil]
             ELSE [rw EXCEPT !.readers = @ \ {g}]
    /\ inOp' = [inOp EXCEPT ![g] = "idle"]
    /\ UNCHANGED <<nonPersistVars, booted, pmu, savePc>>

\* periodicSave's ticker fires: SaveToDisk takes the PersistentCache's lock
SaveLock ==
    /\ booted = "serving"
    /\ savePc = "idle"
    /\ pmu = Nil
    /\ pmu' = Saver
    /\ savePc' = "locked"
    /\ UNCHANGED <<nonPersistVars, booted, rw, inOp>>

\* os.Create: on an error SaveToDisk returns, else encoder.Encode(c.data)
\* starts to walk the mapping
SaveCreate(ok) ==
    /\ savePc = "locked"
    /\ savePc' = IF ok THEN "encoding" ELSE "idle"
    /\ pmu' = IF ok THEN pmu ELSE Nil
    /\ UNCHANGED <<nonPersistVars, booted, rw, inOp>>

\* Encode returns and the deferred Unlock runs
SaveDone ==
    /\ savePc = "encoding"
    /\ savePc' = "idle"
    /\ pmu' = Nil
    /\ UNCHANGED <<nonPersistVars, booted, rw, inOp>>

\* the goroutines that are reading, and writing, the key-to-value mapping
Reading ==
    {g \in Workers : inOp[g] \in {"Get", "Has", "Keys"}}
    \cup (IF savePc = "encoding" THEN {Saver} ELSE {})

Writing ==
    {g \in Workers : inOp[g] \in ExclusiveOps}
    \cup (IF booted = "loading" THEN {Loader} ELSE {})

PersistNext ==
    \/ \E fileExists \in BOOLEAN : Load(fileExists)
    \/ LoadDone
    \/ \E g \in Workers, op \in ExclusiveOps \cup SharedOps : Enter(g, op)
    \/ \E g \in Workers : Leave(g)
    \/ SaveLock
    \/ \E ok \in BOOLEAN : SaveCreate(ok)
    \/ SaveDone

\* ------------------------------------------------- Start, connectToLeader
MaxAccepts == 11
\* make(chan net.Conn, 10)
PoolCap == 10

StartInit ==
    /\ role = "none"
    /\ exit = "none"
    /\ dialPc = "none"
    /\ dialAttempt = 0
    /\ dials = 0
    /\ acceptPc = "none"
    /\ accepted = 0
    /\ spawned = 0
    /\ ended = 0
    /\ pool = 0

Running == role # "none" /\ exit = "none"

\* Start up to its accept loop: net.Listen, whose error ends the process in
\* main, then `go s.connectToLeader()` on a node that is not the leader
Start(isLeader, listenOk) ==
    /\ role = "none"
    /\ role' = IF isLeader THEN "leader" ELSE "follower"
    /\ IF listenOk
       THEN /\ acceptPc' = "accept"
            /\ dialPc' = IF isLeader THEN "none" ELSE "dial"
            /\ dialAttempt' = IF isLeader THEN 0 ELSE 1
            /\ exit' = exit
       ELSE /\ exit' = "listen"
            /\ UNCHANGED <<acceptPc, dialPc, dialAttempt>>
    /\ UNCHANGED <<nonStartVars, dials, accepted, spawned, ended, pool>>

\* connectToLeader: net.Dial succeeds or fails
Dial(ok) ==
    /\ Running
    /\ dialPc = "dial"
    /\ dials' = dials + 1
    /\ dialPc' = IF ok THEN "push" ELSE "sleep"
    /\ UNCHANGED <<nonStartVars, role, exit, dialAttempt, acceptPc, accepted, spawned, ended, pool>>

\* connectToLeader after a failed Dial: time.Sleep(retryDelay), attempt++,
\* and log.Fatalf once the loop condition fails
Retry ==
    /\ Running
    /\ dialPc = "sleep"
    /\ dialAttempt' = dialAttempt + 1
    /\ IF dialAttempt + 1 <= maxRetries
       THEN dialPc' = "dial" /\ exit' = exit
       ELSE dialPc' = "fatal" /\ exit' = "dial"
    /\ UNCHANGED <<nonStartVars, role, dials, acceptPc, accepted, spawned, ended, pool>>

\* connectToLeader after a successful Dial: s.connPool <- conn, which
\* blocks while the channel is full, then s.handleConnection(conn)
DialPush ==
    /\ Running
    /\ dialPc = "push"
    /\ pool < PoolCap
    /\ pool' = pool + 1
    /\ dialPc' = "handle"
    /\ UNCHANGED <<nonStartVars, role, exit, dialAttempt, dials, acceptPc, accepted, spawned, ended>>

\* handleConnection on the dialed connection returns, and connectToLeader
\* with it
DialHandlerExit ==
    /\ Running
    /\ dialPc = "handle"
    /\ dialPc' = "returned"
    /\ UNCHANGED <<nonStartVars, role, exit, dialAttempt, dials, acceptPc, accepted, spawned, ended, pool>>

\* the accept loop: ln.Accept returns a connection
Accept ==
    /\ Running
    /\ acceptPc = "accept"
    /\ accepted < MaxAccepts
    /\ accepted' = accepted + 1
    /\ acceptPc' = "push"
    /\ UNCHANGED <<nonStartVars, role, exit, dialPc, dialAttempt, dials, spawned, ended, pool>>

\* the accept loop: s.connPool <- conn, which blocks while the channel is
\* full, then `go s.handleConnection(conn)`
AcceptPush ==
    /\ Running
    /\ acceptPc = "push"
    /\ pool < PoolCap
    /\ pool' = pool + 1
    /\ spawned' = spawned + 1
    /\ acceptPc' = "accept"
    /\ UNCHANGED <<nonStartVars, role, exit, dialPc, dialAttempt, dials, accepted, ended>>

\* handleConnection on an accepted connection returns (its Read failed);
\* nothing receives from connPool
HandlerExit ==
    /\ Running
    /\ ended < spawned
    /\ ended' = ended + 1
    /\ UNCHANGED <<nonStartVars, role, exit, dialPc, dialAttempt, dials, acceptPc, accepted, spawned, pool>>

StartNext ==
    \/ \E isLeader \in BOOLEAN, listenOk \in BOOLEAN : Start(isLeader, listenOk)
    \/ \E ok \in BOOLEAN : Dial(ok)
    \/ Retry
    \/ DialPush
    \/ DialHandlerExit
    \/ Accept
    \/ AcceptPush
    \/ HandlerExit

AllOrders == UNION {Orders(ks) : ks \in SUBSET {KeyK, KeyJ}}

ServerNext ==
    \/ \E c \in Conns, bytes \in ClientPayloads : ClientSend(c, bytes)
    \/ \E c \in Conns : Break(c)
    \/ \E e \in ServerEnds : Register(e[1], e[2])
    \/ \E e \in ServerEnds, j \in 1..MaxCmds : Read(e[1], e[2], j)
    \/ \E e \in ServerEnds : ReadError(e[1], e[2])
    \/ \E h \in BagToSet(handlers) : Parse(h)
    \/ \E h \in BagToSet(handlers), order \in AllOrders : Dispatch(h, order)
    \/ \E r \in BagToSet(repls), order \in AllOrders : Snapshot(r, order)
    \/ \E r \in BagToSet(repls), c \in Conns : Attempt(r, c)

\* the cache-engine specification leaves the servers as they start, and
\* the server specification the single engine
Init == CacheInit /\ ServerInit /\ CodecInit /\ StartInit /\ PersistInit /\ ReplInit

SpecCache == Init /\ [][CacheNext]_vars

SpecServer == Init /\ [][ServerNext]_vars

SpecCodec == Init /\ [][CodecNext]_vars

SpecStart == Init /\ [][StartNext]_vars

SpecPersist == Init /\ [][PersistNext]_vars

SpecRepl == Init /\ [][ReplNext]_vars

\* ======================================================== cache claims

\* the rule the specification states for reads: valid strictly before expiry
ValidStrictlyBefore(c, k, t) ==
    k \in DOMAIN c.data /\ (k \notin DOMAIN c.expiry \/ t < c.expiry[k])

\* the rule the engine applies: valid until the expiry instant inclusive
ValidNotAfter(c, k, t) ==
    k \in DOMAIN c.data /\ (k \notin DOMAIN c.expiry \/ t <= c.expiry[k])

\* C1: after Set(k, v, ttl) with ttl <= 0, and until a later Delete or
\* Set/BatchSet on k, Get(k) returns v however much time passes.
C1_NoTTLNeverExpires ==
    \A k \in KeySpace :
        (shadow[k].set /\ shadow[k].forever) =>
            /\ GetOutcome(cache, k, now) = "hit"
            /\ cache.data[k] = shadow[k].val

\* C2 as stated: Get hits exactly when the key is present and has no expiry
\* or the time read is strictly before the expiry; Has and Keys likewise.
C2_ValidStrictlyBeforeExpiry ==
    /\ \A p \in DOMAIN readers :
          (readers[p].out = "hit") <=> ValidStrictlyBefore(cache, readers[p].key, readers[p].t)
    /\ \A k \in KeySpace : HasOp(cache, k, now) <=> ValidStrictlyBefore(cache, k, now)
    /\ KeysOp(cache, now) = {k \in KeySpace : ValidStrictlyBefore(cache, k, now)}

\* C2 amended: Get hits, with the stored value, exactly when the key is
\* present and has no expiry or the time read is not after the expiry (a read
\* at the expiry instant itself still succeeds); Has and Keys likewise.
C2_ValidUntilExpiryInclusive ==
    /\ \A p \in DOMAIN readers :
          /\ (readers[p].out = "hit") <=> ValidNotAfter(cache, readers[p].key, readers[p].t)
          /\ readers[p].out = "hit" => readers[p].val = cache.data[readers[p].key]
    /\ \A k \in KeySpace : HasOp(cache, k, now) <=> ValidNotAfter(cache, k, now)
    /\ KeysOp(cache, now) = {k \in KeySpace : ValidNotAfter(cache, k, now)}

\* a Get that read the clock exactly at the key's expiry instant
C2_Witness ==
    \E p \in DOMAIN readers :
        /\ readers[p].key \in DOMAIN cache.expiry
        /\ readers[p].t = cache.expiry[readers[p].key]
        /\ readers[p].out = "hit"

\* C3: a value written by Set/BatchSet that is still valid by its recorded
\* expiry, and that no client Delete targeted since, is still in the cache
\* (so the cleanup of an expired read never removes a later Set's value).
C3_ValidEntryStays ==
    \A k \in KeySpace :
        (shadow[k].set /\ (~shadow[k].hasExp \/ now <= shadow[k].exp)) =>
            /\ k \in DOMAIN cache.data
            /\ cache.data[k] = shadow[k].val

\* C9: after only Sets (and BatchSets) of distinct new keys with ttl = 0 on a
\* fresh engine, Keys() is exactly the keys written and Sets is their number.
C9_FreshSetsAllCounted ==
    onlyFreshSets =>
        LET written == {k \in KeySpace : shadow[k].set}
        IN /\ KeysOp(cache, now) = written
           /\ cache.metrics.Sets = Cardinality(written)

\* every key of the key space was set on a fresh engine
C9_Witness == onlyFreshSets /\ cache.metrics.Sets = Cardinality(KeySpace)

\* C10: Delete(k) adds exactly one to Deletes; on an absent key it changes
\* neither mapping nor another counter; a second Delete(k) changes no mapping.
C10_DeleteIdempotent ==
    [][\A k \in KeySpace : Delete(k) =>
          /\ cache'.metrics = [cache.metrics EXCEPT !.Deletes = @ + 1]
          /\ k \notin DOMAIN cache.data =>
                (cache'.data = cache.data /\ cache'.expiry = cache.expiry)
          /\ DeleteMaps(cache', k).data = cache'.data
          /\ DeleteMaps(cache', k).expiry = cache'.expiry]_vars

\* Delete ran twice on an engine that never held a key
C10_Witness == cache.metrics.Deletes = 2 /\ cache.metrics.Sets = 0

\* C13: in every reachable state of the engine every key of the expiry
\* mapping is a key of the value mapping.
C13_ExpiryKeysHaveValues == DOMAIN cache.expiry \subseteq DOMAIN cache.data

\* a key with an expiry is held after a Delete or an eviction has run
C13_Witness == cache.metrics.Deletes > 0 /\ DOMAIN cache.expiry # {}

\* C14: a timer that fires removes its key, and only its key, only if the
\* key's recorded expiry has passed; when the key was written again with an
\* expiry that lies after the firing, the firing changes no mapping and no
\* counter and the key is still retrievable.
C14_TimerRechecksExpiry ==
    [][\A g \in BagToSet(timers) : startEviction(g) =>
          LET k == g.key
          IN /\ cache' # cache =>
                  /\ k \in DOMAIN cache.expiry /\ now > cache.expiry[k]
                  /\ DOMAIN cache'.data = (DOMAIN cache.data) \ {k}
                  /\ \A x \in DOMAIN cache'.data : cache'.data[x] = cache.data[x]
             /\ (k \in DOMAIN cache.data /\ shadow[k].set /\ shadow[k].hasExp
                 /\ now < shadow[k].exp) =>
                  /\ cache' = cache
                  /\ GetOutcome(cache', k, now) = "hit"
                  /\ cache'.data[k] = shadow[k].val]_vars

\* the timer of an earlier Set has fired and spared the key, which a later
\* Set had given an expiry that is still ahead
C14_Witness ==
    /\ spared
    /\ \E k \in DOMAIN cache.expiry : now < cache.expiry[k] /\ now > 0
    /\ cache.metrics.Sets = 2 /\ cache.metrics.Deletes = 0
    /\ Cardinality(DOMAIN cache.data) = 1

\* C17: under every interleaving of concurrent Gets no counter ever
\* decreases, and every Get that completes has added exactly one to exactly
\* one of Hits and Misses, so that Hits + Misses counts the Gets made.
C17_CountersExactAndMonotone ==
    [][/\ \A f \in {"Hits", "Misses", "Sets", "Deletes"} :
             cache'.metrics[f] >= cache.metrics[f]
       /\ \A p \in Procs : GetEnd(p) =>
             cache'.metrics.Hits + cache'.metrics.Misses
                = cache.metrics.Hits + cache.metrics.Misses + 1]_vars

\* ======================================================= server claims
\* nothing is running and nothing is in flight towards a server
Quiescent ==
    /\ handlers = EmptyBag
    /\ repls = EmptyBag
    /\ \A e \in ServerEnds : wire[e] = <<>>

\* the keys a mutating message writes or deletes
KeysOf(m) ==
    IF m.Cmd = CMDBatch THEN DOMAIN m.Pairs
    ELSE IF m.Cmd \in {CMDSet, CMDDel} THEN {m.Key} ELSE {}

\* the value an engine holding `data` has for each key m writes
Holds(data, m) ==
    CASE m.Cmd = CMDSet -> m.Key \in DOMAIN data /\ data[m.Key] = m.Value
      [] m.Cmd = CMDBatch ->
            \A k \in DOMAIN m.Pairs : k \in DOMAIN data /\ data[k] = m.Pairs[k]
      [] m.Cmd = CMDDel -> m.Key \notin DOMAIN data
      [] OTHER -> TRUE

\* C4: every payload received on a connection that can be written to gets
\* exactly one reply from its handler, whatever its first token is.
C4_OneReplyPerPayload ==
    \A f \in log : Writable(f.conn) => Len(f.replies) = 1

\* C5: every connection receives the replicated commands in the order the
\* leader handed them to replication, so a follower that received them all
\* (and no client command of its own) ends with the leader's values.
C5_ReplicationInOrder ==
    /\ \A c \in Conns : \A i, j \in DOMAIN wrote[c] :
          i < j => wrote[c][i] < wrote[c][j]
    /\ (/\ Quiescent
        /\ Writable("c2")
        /\ \A f \in log : f.conn # "c3"
        /\ \A i \in DOMAIN handed : \E j \in DOMAIN wrote["c2"] : wrote["c2"][j] = i)
       => store["F"].data = store["L"].data

\* C6: only a leader hands a command to replication, and only SET, DEL and
\* BATCH: every replication goroutine ever started, and every replicated
\* write, is the leader's and carries a mutating command.
C6_OnlyLeaderReplicatesMutations ==
    /\ \A i \in DOMAIN handed : IsLeader(handed[i].node) /\ handed[i].msg.Cmd \in Mutating
    /\ \A r \in BagToSet(repls) : IsLeader(r.node) /\ r.msg.Cmd \in Mutating
    /\ \A c \in Conns : \A i \in DOMAIN wrote[c] :
          wrote[c][i] \in DOMAIN handed /\ IsLeader(handed[wrote[c][i]].node)

\* the follower has applied a mutating command from its leader and one
\* from a client of its own
C6_Witness ==
    /\ \E f \in log : f.node = "F" /\ f.conn = "c2" /\ f.cmd \in Mutating
    /\ \E f \in log : f.node = "F" /\ f.conn = "c3" /\ f.cmd \in Mutating

\* C7: the engine already holds a command's effect when its replication is
\* started, and the handler of a SET, DEL or BATCH answers "OK" whatever
\* replication does.
C7_ReplyAfterLocalApply ==
    /\ \A i \in DOMAIN handed : Holds(handed[i].applied, handed[i].msg)
    /\ \A f \in log : (f.cmd \in Mutating /\ Writable(f.conn)) => f.replies = <<ReplyOK>>

\* the client has its "OK" while replication to the follower failed on
\* every attempt and dropped the follower from the registry
C7_Witness ==
    /\ \E f \in log : f.node = "L" /\ f.conn = "c1" /\ f.cmd \in Mutating
                      /\ f.replies = <<ReplyOK>>
    /\ Len(handed) > 0 /\ repls = EmptyBag
    /\ wrote["c2"] = <<>>
    /\ <<"L", "c2">> \in closed /\ connPc[<<"L", "c2">>] = "loop"

\* C8: once everything has settled, the follower holds the effect of every
\* SET and BATCH that was written to its connection, that connection being
\* sound and no other command having touched the same keys.
C8_DeliveredIsApplied ==
    (Quiescent /\ Writable("c2")) =>
        \A j \in DOMAIN wrote["c2"] :
            LET m == handed[wrote["c2"][j]].msg
            IN (/\ m.Cmd \in {CMDSet, CMDBatch}
                /\ \A i \in DOMAIN handed :
                      i # wrote["c2"][j] => KeysOf(handed[i].msg) \cap KeysOf(m) = {}
                /\ \A f \in log : f.conn # "c3")
               => Holds(store["F"].data, m)

\* what C16 asks of every state: a registry holds only connections of a
\* leader whose read loop runs and on which replication has not given up
RegistryHoldsLiveConns ==
    \A n \in Nodes : \A c \in followers[n] :
        /\ IsLeader(n)
        /\ <<n, c>> \in ServerEnds
        /\ connPc[<<n, c>>] = "loop"
        /\ <<n, c>> \notin closed

\* C16: a connection enters the registry only on a leader and only as its
\* handler starts, hence at most once; after its read loop has ended, or
\* replication has used up its retries on it, it is out of the registry for
\* good; a registry holds only connections whose read loop has not ended,
\* and a non-leader's registry is always empty.
C16_RegistryLifecycle ==
    /\ []RegistryHoldsLiveConns
    /\ [][\A e \in ServerEnds :
              /\ (e[2] \in followers'[e[1]] /\ e[2] \notin followers[e[1]]) =>
                    (IsLeader(e[1]) /\ connPc[e] = "start" /\ connPc'[e] = "loop")
              /\ connPc[e] # "start" => connPc'[e] # "start"
              /\ e \in closed => e \in closed']_vars

\* replication has given up on the follower's connection and dropped it,
\* the follower's own read loop has ended, the client's connection stays
C16_Witness ==
    /\ followers["L"] = {"c1"}
    /\ <<"L", "c2">> \in closed /\ connPc[<<"L", "c2">>] = "loop"
    /\ connPc[<<"F", "c2">>] = "done"

\* C20: every handler decodes exactly the bytes its own Read returned: the
\* handler of an earlier payload never parses bytes that a later Read on
\* the connection has put into the shared buffer.
C20_HandlerParsesItsOwnBytes ==
    [][\A h \in BagToSet(handlers) :
          Parse(h) => SubSeq(buf[<<h.node, h.conn>>], 1, h.len) = h.got]_vars

\* ======================================================== codec claims
\* C11: for every SET, DEL and BATCH message whose tokens hold no white
\* space, ParseCommand(ToBytes(m)) succeeds with the command, key, value,
\* TTL and pairs of m.
C11_RoundTrip ==
    codecPc = "decoded" =>
        /\ decoded.err = NoErr
        /\ decoded.Cmd = msg.Cmd
        /\ decoded.Key = msg.Key
        /\ decoded.Value = msg.Value
        /\ decoded.TTL = msg.TTL
        /\ decoded.Pairs = msg.Pairs

\* ====================================================== startup claims
\* C12: a follower dials its leader at most maxRetries times; after the
\* first successful dial it dials no more and hands the connection to its
\* handler, which it can always do; the process exits over the dial only
\* after maxRetries failed dials; a leader never dials.
C12_FollowerDialsAtMostThrice ==
    /\ dials <= maxRetries
    /\ role = "leader" => (dials = 0 /\ dialPc = "none")
    /\ exit = "dial" <=> dialPc = "fatal"
    /\ dialPc = "fatal" => (role = "follower" /\ dials = maxRetries)
    /\ dialPc \in {"push", "handle", "returned"} => dials = dialAttempt
    /\ dialPc = "push" => pool < PoolCap

\* C19: every connection the listener accepted, and the one a follower
\* dialed, gets its receive loop however many connections came before it:
\* neither the accept loop nor connectToLeader is ever stopped for good
\* between obtaining a connection and starting its handler. Nothing ever
\* receives from connPool, so a send that finds it full never completes.
C19_EveryConnectionGetsItsLoop ==
    (acceptPc = "push" \/ dialPc = "push") => pool < PoolCap

\* ================================================== persistence claims
\* C18: whoever reads or writes the engine's key-to-value mapping holds the
\* engine's reader/writer lock, exclusively to write and shared to read,
\* SaveToDisk and the startup load included, so that no snapshot read of
\* the mapping runs while a Set, BatchSet, Delete or eviction writes it.
C18_MappingOnlyUnderEngineLock ==
    /\ \A g \in Writing : rw.writer = g
    /\ \A g \in Reading : g \in rw.readers
    /\ ~(Saver \in Reading /\ Writing # {})

\* ================================================== replication claims
\* what C15 asks of every state: per replication goroutine and connection
\* of its snapshot at most maxRetries Writes; the goroutine has closed and
\* removed the connection only after maxRetries failed Writes, and has done
\* so whenever it is through with a connection no Write reached; and the
\* goroutine holds the registry lock only to copy and to delete.
RetryDiscipline ==
    /\ \A r \in Repls, c \in FConns :
          LET t == tally[r][c]
          IN /\ t.tries <= maxRetries
             /\ c \notin rp[r].taken => t = NoTally
             /\ t.removed => (t.tries = maxRetries /\ ~t.ok /\ c \in shut)
             /\ (rp[r].pc = "done" /\ c \in rp[r].taken) =>
                    \/ t.ok /\ t.tries >= 1 /\ ~t.removed
                    \/ ~t.ok /\ t.tries = maxRetries /\ t.removed /\ c \notin registry
    /\ \A r \in Repls : mu = r => rp[r].pc \in {"copy", "delete"}

\* C15: for each follower of its snapshot the leader writes until the first
\* success or until maxRetries Writes have failed, never more; it closes and
\* removes the connection if and only if all of them failed; the registry
\* lock is held during no Write and no retry delay.
C15_BoundedRetriesThenDrop ==
    /\ []RetryDiscipline
    /\ [][\A r \in Repls, c \in FConns :
              tally[r][c].ok => tally'[r][c] = tally[r][c]]_vars

\* one goroutine is through: it reached one follower on its second Write
\* and dropped the other after three failed Writes
C15_Witness ==
    /\ rp["r1"].pc = "done"
    /\ tally["r1"]["f1"] = [tries |-> 2, ok |-> TRUE, removed |-> FALSE]
    /\ tally["r1"]["f2"] = [tries |-> maxRetries, ok |-> FALSE, removed |-> TRUE]

====
